---- MODULE Spec2Model ----
(***************************************************************************)
(* uTLGBotLib (src/src/utlgbotlib.cpp): the bounded string toolkit, the    *)
(* JSON token navigator, the response envelope unwrapper (tlg_get and      *)
(* tlg_post) and the message record builder (getUpdates), modelled at the  *)
(* level of bytes and array indices.                                       *)
(*                                                                         *)
(* A byte is a one-character string; NUL is the C string terminator.  A C  *)
(* array is a function on 0..size-1.  Every operator that writes into an   *)
(* array returns the array together with the set of indices it wrote, so   *)
(* that a write outside the array is recorded and not lost.                *)
(***************************************************************************)
EXTENDS Integers, Sequences, FiniteSets, TLC

VARIABLES
    unit,                 \* the last direct call of a private helper
    buffer,               \* _buffer[HTTP_MAX_RES_LENGTH]
    json_value_str,       \* _json_value_str[MAX_JSON_STR_LEN]
    json_subvalue_str,    \* _json_subvalue_str[MAX_JSON_SUBVAL_STR_LEN]
    json_elements,        \* _json_elements[MAX_JSON_ELEMENTS]
    json_subelements,     \* _json_subelements[MAX_JSON_SUBELEMENTS]
    received_msg,         \* received_msg
    last_received_msg,    \* _last_received_msg, a uint64_t
    long_poll_timeout,    \* _long_poll_timeout
    dont_keep_connection, \* _dont_keep_connection
    connected,            \* _client.is_connected()
    call                  \* the last call of the bot: its input and what it did

botvars == <<buffer, json_value_str, json_subvalue_str, json_elements,
             json_subelements, received_msg, last_received_msg,
             long_poll_timeout, dont_keep_connection, connected, call>>

vars == <<unit, botvars>>

NUL == "NUL"

SetMin(S) == CHOOSE x \in S : \A y \in S : x <= y

\* A 1-indexed tuple of bytes as a 0-indexed C array (no terminator added).
Arr(seq) == [i \in 0..(Len(seq) - 1) |-> seq[i + 1]]

\* A store into a C array: inside the array the byte changes, outside it the
\* array is what it was (the store itself is recorded by the caller).
Wr(a, i, v) == IF i \in DOMAIN a THEN [a EXCEPT ![i] = v] ELSE a

Size(a) == Cardinality(DOMAIN a)

\* The element of a one-element set.
The(S) == CHOOSE x \in S : TRUE

\* strlen(a + from): the offset of the first terminator.
strlen(a, from) ==
    (CHOOSE i \in from..(Size(a) - 1) :
        a[i] = NUL /\ \A j \in from..(i - 1) : a[j] # NUL) - from

Terminated(a) == \E i \in DOMAIN a : a[i] = NUL

\* The bytes of the C string held in `a`, as a tuple.
StrOf(a) == [k \in 1..strlen(a, 0) |-> a[k - 1]]

(***************************************************************************)
(* cstr_strncat                                                            *)
(***************************************************************************)

\* Mutant: the capacity test of the loop is off by one.
RECURSIVE strncat_loop_offbyone(_, _, _, _, _)
strncat_loop_offbyone(st, dest_max_size, src, src_len, dest_len) ==
    IF st.i >= src_len THEN st
    ELSE IF dest_len + st.i > dest_max_size
         THEN [st EXCEPT !.m = Wr(st.m, dest_max_size - 1, NUL),
                         !.w = st.w \cup {dest_max_size - 1},
                         !.rc = FALSE]
         ELSE strncat_loop_offbyone(
                  [st EXCEPT !.m = Wr(st.m, dest_len + st.i, src[st.i]),
                             !.w = st.w \cup {dest_len + st.i},
                             !.i = st.i + 1],
                  dest_max_size, src, src_len, dest_len)

\* The for loop of cstr_strncat; st = [m, w, rc, i].
RECURSIVE strncat_loop(_, _, _, _, _)
strncat_loop(st, dest_max_size, src, src_len, dest_len) ==
    IF st.i >= src_len THEN st
    ELSE IF dest_len + st.i > dest_max_size - 1
         THEN [st EXCEPT !.m = Wr(st.m, dest_max_size - 1, NUL),
                         !.w = st.w \cup {dest_max_size - 1},
                         !.rc = FALSE]
         ELSE strncat_loop([st EXCEPT !.m = Wr(st.m, dest_len + st.i, src[st.i]),
                                      !.w = st.w \cup {dest_len + st.i},
                                      !.i = st.i + 1],
                           dest_max_size, src, src_len, dest_len)

\* bool cstr_strncat(dest, dest_max_size, src, src_len): [m, w, rc].
cstr_strncat(dest, dest_max_size, src, src_len) ==
    LET dest_len == strlen(dest, 0)
        L == strncat_loop([m |-> dest, w |-> {}, rc |-> TRUE, i |-> 0],
                          dest_max_size, src, src_len, dest_len)
        t == IF dest_len + L.i >= dest_max_size - 1
             THEN dest_max_size - 1
             ELSE dest_len + L.i
    IN  [m |-> Wr(L.m, t, NUL), w |-> L.w \cup {t}, rc |-> L.rc]

(***************************************************************************)
(* The tokenizer (jsmn), as the navigator consumes it: tokens are byte     *)
(* ranges [start, end) of the text, in document order, so that a key's     *)
(* token is followed by its value's token.                                 *)
(***************************************************************************)

ZeroTok == [type |-> "zero", start |-> 0, end |-> 0]

\* memset(tokens, 0, sizeof(jsmntok_t) * n)
ZeroToks(n) == [i \in 0..(n - 1) |-> ZeroTok]

PrimitiveEnd == {":", "\t", "\r", "\n", " ", ",", "]", "}"}

\* One step of jsmn_parse at ps.pos; ps = [pos, toks, w, next, err].
\* err: 0, or -1 (not enough tokens), -2 (invalid character), -3 (the text
\* ends inside a string).
jsmn_step(ps, js, len, num_tokens) ==
    LET c == js[ps.pos]
        full == ps.next >= num_tokens
        put(t) == [ps EXCEPT !.toks = Wr(ps.toks, ps.next, t),
                             !.w = ps.w \cup {ps.next},
                             !.next = ps.next + 1]
        open == {i \in 0..(ps.next - 1) : i \in DOMAIN ps.toks /\ ps.toks[i].end = -1}
    IN  CASE c \in {"{", "["} ->
               IF full THEN [ps EXCEPT !.err = -1]
               ELSE [put([type |-> IF c = "{" THEN "object" ELSE "array",
                          start |-> ps.pos, end |-> -1])
                        EXCEPT !.pos = ps.pos + 1]
          [] c \in {"}", "]"} ->
               IF open = {} THEN [ps EXCEPT !.err = -2]
               ELSE LET i == CHOOSE x \in open : \A y \in open : y <= x
                    IN  IF ps.toks[i].type # (IF c = "}" THEN "object" ELSE "array")
                        THEN [ps EXCEPT !.err = -2]
                        ELSE [ps EXCEPT !.toks[i].end = ps.pos + 1,
                                        !.pos = ps.pos + 1]
          [] c = "\"" ->
               LET close == {p \in (ps.pos + 1)..(len - 1) : js[p] = "\""}
               IN  IF close = {} THEN [ps EXCEPT !.err = -3]
                   ELSE IF full THEN [ps EXCEPT !.err = -1]
                   ELSE [put([type |-> "string", start |-> ps.pos + 1,
                              end |-> SetMin(close)])
                            EXCEPT !.pos = SetMin(close) + 1]
          [] c \in {"\t", "\r", "\n", " ", ":", ","} ->
               [ps EXCEPT !.pos = ps.pos + 1]
          [] OTHER ->
               LET stop == {p \in ps.pos..(len - 1) : js[p] \in PrimitiveEnd \cup {NUL}}
                   e == IF stop = {} THEN len ELSE SetMin(stop)
               IN  IF full THEN [ps EXCEPT !.err = -1]
                   ELSE [put([type |-> "primitive", start |-> ps.pos, end |-> e])
                            EXCEPT !.pos = e]

\* k turns of the loop of jsmn_parse (a turn after the loop has ended
\* changes nothing).
RECURSIVE jsmn_run(_, _, _, _, _)
jsmn_run(ps, js, len, num_tokens, k) ==
    IF k = 0 THEN ps
    ELSE IF k = 1
         THEN IF ps.err # 0 \/ ps.pos >= len \/ js[ps.pos] = NUL THEN ps
              ELSE jsmn_step(ps, js, len, num_tokens)
    ELSE The({jsmn_run(half, js, len, num_tokens, k - k \div 2) :
                 half \in {jsmn_run(ps, js, len, num_tokens, k \div 2)}})

\* jsmn_init + jsmn_parse: [n, toks, w]; n is the token count or the error.
jsmn_parse(js, len, tokens, num_tokens) ==
    LET ps == jsmn_run([pos |-> 0, toks |-> tokens, w |-> {}, next |-> 0, err |-> 0],
                       js, len, num_tokens, len)
        part == \E i \in 0..(ps.next - 1) : i \in DOMAIN ps.toks /\ ps.toks[i].end = -1
    IN  [n |-> IF ps.err # 0 THEN ps.err ELSE IF part THEN -3 ELSE ps.next,
         toks |-> ps.toks, w |-> ps.w]

(***************************************************************************)
(* The JSON token navigator                                                *)
(***************************************************************************)

\* uint32_t json_parse_str(json_str, json_str_len, json_tokens, json_tokens_len)
json_parse_str(json_str, json_str_len, json_tokens, json_tokens_len) ==
    LET r == jsmn_parse(json_str, json_str_len, json_tokens, json_tokens_len)
    IN  [n |-> IF r.n < 0 THEN 0
               ELSE IF r.n = 0 \/ r.toks[0].type # "object" THEN 0
               ELSE r.n,
         toks |-> r.toks, w |-> r.w]

\* Mutant: the lengths are not compared.
KeyMatches_nolength(json_str, tok, key) ==
    /\ tok.type = "string"
    /\ \A k \in 1..Len(key) : json_str[tok.start + k - 1] = key[k]

\* The test json_has_key makes of token i against key (a tuple of bytes).
KeyMatches(json_str, tok, key) ==
    /\ tok.type = "string"
    /\ Len(key) = tok.end - tok.start
    /\ \A k \in 1..Len(key) : json_str[tok.start + k - 1] = key[k]

\* uint32_t json_has_key(json_str, json_tokens, num_tokens, key)
json_has_key(json_str, json_tokens, num_tokens, key) ==
    LET hits == {i \in 0..(num_tokens - 1) : KeyMatches(json_str, json_tokens[i], key)}
    IN  IF hits = {} THEN 0 ELSE SetMin(hits)

\* void json_get_element_string(json_str, token, converted_str,
\* converted_str_len): [m, w, r]; r is the set of source indices memcpy reads.
json_get_element_string(json_str, token, converted_str, converted_str_len) ==
    LET len0 == token.end - token.start
        value_len == IF len0 > converted_str_len THEN converted_str_len ELSE len0
        cleared == [i \in DOMAIN converted_str |->
                        IF i < converted_str_len THEN NUL ELSE converted_str[i]]
    IN  [m |-> [i \in DOMAIN cleared |->
                    IF i < value_len /\ (token.start + i) \in DOMAIN json_str
                    THEN json_str[token.start + i] ELSE cleared[i]],
         w |-> 0..(converted_str_len - 1),
         r |-> {token.start + i : i \in 0..(value_len - 1)}]

\* A token array read at index i: outside the array the read is undefined and
\* yields `junk`, which the caller draws from JunkToks.
TokAt(toks, i, junk) == IF i \in DOMAIN toks THEN toks[i] ELSE junk

JunkToks == {ZeroTok, [type |-> "string", start |-> 0, end |-> 1]}

\* uint8_t json_get_key_value(key, json_str, tokens, num_tokens, converted_str,
\* converted_str_len): [rc, m, w, idx]; idx is the set of token indices read
\* to materialize the value.
json_get_key_value(key, json_str, tokens, num_tokens, converted_str, converted_str_len, junk) ==
    LET key_position == json_has_key(json_str, tokens, num_tokens, key)
    IN  IF key_position = 0
        THEN [rc |-> FALSE, m |-> converted_str, w |-> {}, idx |-> {}]
        ELSE LET e == json_get_element_string(json_str,
                          TokAt(tokens, key_position + 1, junk),
                          converted_str, converted_str_len)
             IN  [rc |-> TRUE, m |-> e.m, w |-> e.w, idx |-> {key_position + 1}]

(***************************************************************************)
(* JSON texts, written as tuples of bytes                                  *)
(***************************************************************************)

Q == "\""

\* "s"
S(s) == <<Q>> \o s \o <<Q>>

\* "k":v
KV(k, v) == S(k) \o <<":">> \o v

RECURSIVE Join(_)
Join(parts) ==
    IF parts = <<>> THEN <<>>
    ELSE IF Len(parts) = 1 THEN parts[1]
    ELSE parts[1] \o <<",">> \o Join(Tail(parts))

\* {m1,m2,...}
Obj(members) == <<"{">> \o Join(members) \o <<"}">>

\* The C array of `size` bytes that holds the string s, zero filled.
CArr(s, size) == [i \in 0..(size - 1) |-> IF i < Len(s) THEN s[i + 1] ELSE NUL]

\* A C array of `size` bytes full of a stale byte.
Stale(size) == [i \in 0..(size - 1) |-> "#"]

(***************************************************************************)
(* cstr_get_substr_pos_end, cstr_rm_char                                   *)
(***************************************************************************)

\* strncmp(a + at, sub, Len(sub)) == 0, for a terminator-free sub.
StartsWith(a, at, sub) ==
    \A k \in 1..Len(sub) : (at + k - 1) \in DOMAIN a /\ a[at + k - 1] = sub[k]

\* int32_t cstr_get_substr_pos_end(str, str_len, substr, substr_len), with
\* str = a + base: the loop stops at the first i, i + substr_len <= str_len,
\* at which substr is found.
cstr_get_substr_pos_end(a, base, str_len, substr) ==
    LET found == {i \in 0..(str_len - Len(substr)) : StartsWith(a, base + i, substr)}
    IN  IF found = {} THEN -1 ELSE SetMin(found) + Len(substr)

\* One turn of the for loop of cstr_rm_char; st = [m, a, b].
rm_char_step(st, base, str_len, c_remove) ==
    IF st.b >= str_len THEN st
    ELSE IF st.m[base + st.b] # c_remove
         THEN [m |-> Wr(st.m, base + st.a, st.m[base + st.b]),
               a |-> st.a + 1, b |-> st.b + 1]
         ELSE [st EXCEPT !.b = st.b + 1]

\* k turns of the loop, a half of them after the other half (a turn after the
\* loop has ended changes nothing).
RECURSIVE rm_char_loop(_, _, _, _, _)
rm_char_loop(st, base, str_len, c_remove, k) ==
    IF k = 0 THEN st
    ELSE IF k = 1 THEN rm_char_step(st, base, str_len, c_remove)
    ELSE The({rm_char_loop(half, base, str_len, c_remove, k - k \div 2) :
                 half \in {rm_char_loop(st, base, str_len, c_remove, k \div 2)}})

\* void cstr_rm_char(str, str_len, c_remove), with str = m + base.
cstr_rm_char(m, base, str_len, c_remove) ==
    LET L == rm_char_loop([m |-> m, a |-> 0, b |-> 0], base, str_len, c_remove,
                          str_len)
    IN  Wr(L.m, base + L.a, NUL)

(***************************************************************************)
(* uint64_t, as four 16-bit limbs, least significant first                 *)
(***************************************************************************)

Limb == 2 ^ 16

U64Zero == <<0, 0, 0, 0>>
UINT64_MAX == <<Limb - 1, Limb - 1, Limb - 1, Limb - 1>>

\* x * m + c modulo 2^64, for small m and c: [v, over].
U64MulAdd(x, m, c) ==
    LET s1 == x[1] * m + c
        s2 == x[2] * m + (s1 \div Limb)
        s3 == x[3] * m + (s2 \div Limb)
        s4 == x[4] * m + (s3 \div Limb)
    IN  [v |-> <<s1 % Limb, s2 % Limb, s3 % Limb, s4 % Limb>>,
         over |-> s4 \div Limb # 0]

\* x + 1 in uint64_t arithmetic.
U64Inc(x) == U64MulAdd(x, 1, 1).v

\* A small natural number as a uint64_t.
U64(n) == <<n % Limb, n \div Limb, 0, 0>>

DigitVal(c) ==
    CASE c = "0" -> 0 [] c = "1" -> 1 [] c = "2" -> 2 [] c = "3" -> 3
      [] c = "4" -> 4 [] c = "5" -> 5 [] c = "6" -> 6 [] c = "7" -> 7
      [] c = "8" -> 8 [] c = "9" -> 9 [] OTHER -> -1

\* The digits of sscanf's integer conversion, from index i; st = [v, n, over].
RECURSIVE scan_digits(_, _, _)
scan_digits(a, i, st) ==
    IF i \notin DOMAIN a \/ DigitVal(a[i]) < 0 THEN st
    ELSE LET r == U64MulAdd(st.v, 10, DigitVal(a[i]))
         IN  scan_digits(a, i + 1,
                 [v |-> r.v, n |-> st.n + 1, over |-> st.over \/ r.over])

\* sscanf(a, "%" SCNu64, &x): [ok, v].  White space is skipped, a sign is
\* accepted, and the conversion fails (x is not assigned) when no digit
\* follows.  A value that does not fit is stored as UINT64_MAX.
sscanf_u64(a) ==
    LET ws == {i \in DOMAIN a : \A j \in 0..i : a[j] \in {" ", "\t", "\n", "\r"}}
        i0 == Cardinality(ws)
        signed == i0 \in DOMAIN a /\ a[i0] \in {"+", "-"}
        i1 == IF signed THEN i0 + 1 ELSE i0
        d == scan_digits(a, i1, [v |-> U64Zero, n |-> 0, over |-> FALSE])
    IN  [ok |-> d.n > 0,
         v |-> IF d.over THEN UINT64_MAX
               ELSE IF signed /\ a[i0] = "-" /\ d.v # U64Zero
               THEN U64Inc([k \in 1..4 |-> Limb - 1 - d.v[k]])
               ELSE d.v]

(***************************************************************************)
(* The capacities of the bot (utlgbotlib.h), scaled down                   *)
(***************************************************************************)

HTTP_MAX_RES_LENGTH == 110
MAX_JSON_STR_LEN == 26
MAX_JSON_SUBVAL_STR_LEN == 8
MAX_JSON_ELEMENTS == 15
MAX_JSON_SUBELEMENTS == 7
MAX_TEXT_LENGTH == 4
MAX_ID_LENGTH == 3
MAX_USER_LENGTH == 3
MAX_USERNAME_LENGTH == 3
MAX_LANGUAGE_CODE_LENGTH == 3
MAX_CHAT_TYPE_LENGTH == 3
MAX_CHAT_TITLE_LENGTH == 3
DEFAULT_TELEGRAM_LONG_POLL_S == 1

(***************************************************************************)
(* Construction                                                            *)
(***************************************************************************)

\* memset(a, '\0', n) at a + from: [m, w].
memset0(a, from, n) ==
    [m |-> [i \in DOMAIN a |-> IF i >= from /\ i < from + n THEN NUL ELSE a[i]],
     w |-> from..(from + n - 1)]

\* A string field after field[0] = '\0'.
Cleared(field) == Wr(field, 0, NUL)

\* void clear_msg_data(void)
clear_msg_data(msg) ==
    [message_id |-> U64Zero,
     date |-> U64Zero,
     text |-> Cleared(msg.text),
     from |-> [id |-> Cleared(msg.from.id),
               is_bot |-> FALSE,
               first_name |-> Cleared(msg.from.first_name),
               last_name |-> Cleared(msg.from.last_name),
               username |-> Cleared(msg.from.username),
               language_code |-> Cleared(msg.from.language_code)],
     chat |-> [id |-> Cleared(msg.chat.id),
               type |-> Cleared(msg.chat.type),
               title |-> Cleared(msg.chat.title),
               username |-> Cleared(msg.chat.username),
               first_name |-> Cleared(msg.chat.first_name),
               last_name |-> Cleared(msg.chat.last_name),
               all_members_are_administrators |-> FALSE]]

\* The storage of received_msg before the constructor runs: every byte is g.
RawMsg(g) ==
    LET f(n) == [i \in 0..(n - 1) |-> g]
    IN  [message_id |-> U64Zero, date |-> U64Zero, text |-> f(MAX_TEXT_LENGTH),
         from |-> [id |-> f(MAX_ID_LENGTH), is_bot |-> FALSE,
                   first_name |-> f(MAX_USER_LENGTH),
                   last_name |-> f(MAX_USER_LENGTH),
                   username |-> f(MAX_USERNAME_LENGTH),
                   language_code |-> f(MAX_LANGUAGE_CODE_LENGTH)],
         chat |-> [id |-> f(MAX_ID_LENGTH), type |-> f(MAX_CHAT_TYPE_LENGTH),
                   title |-> f(MAX_CHAT_TITLE_LENGTH),
                   username |-> f(MAX_USERNAME_LENGTH),
                   first_name |-> f(MAX_USER_LENGTH),
                   last_name |-> f(MAX_USER_LENGTH),
                   all_members_are_administrators |-> FALSE]]

NoCall == [op |-> "none", n |-> 0]

\* uTLGBot::uTLGBot(token, dont_keep_connection).  The constructor does not
\* set the bytes of the record's strings after the first: they are whatever
\* the object's storage held (g).
Constructed(dkc, g) ==
    /\ buffer = memset0([i \in 0..(HTTP_MAX_RES_LENGTH - 1) |-> g], 0,
                        HTTP_MAX_RES_LENGTH).m
    /\ json_value_str = memset0([i \in 0..(MAX_JSON_STR_LEN - 1) |-> g], 0,
                                MAX_JSON_STR_LEN).m
    /\ json_subvalue_str = memset0([i \in 0..(MAX_JSON_SUBVAL_STR_LEN - 1) |-> g], 0,
                                   MAX_JSON_SUBVAL_STR_LEN).m
    /\ json_elements = ZeroToks(MAX_JSON_ELEMENTS)
    /\ json_subelements = ZeroToks(MAX_JSON_SUBELEMENTS)
    /\ long_poll_timeout = DEFAULT_TELEGRAM_LONG_POLL_S
    /\ last_received_msg = UINT64_MAX
    /\ dont_keep_connection = dkc
    /\ connected = FALSE
    /\ received_msg = clear_msg_data(RawMsg(g))
    /\ call = NoCall

(***************************************************************************)
(* The response envelope unwrapper: tlg_get and tlg_post                   *)
(***************************************************************************)

SEP == <<"\r", "\n", "\r", "\n">>
OKM == <<Q, "o", "k", Q, ":">>
TRUE4 == <<"t", "r", "u", "e">>
RESM == <<Q, "r", "e", "s", "u", "l", "t", Q, ":">>

\* _client.get / _client.post with status 0: the response, terminated, is in
\* the buffer; the bytes after its terminator are not touched.
client_response(buf, resp) ==
    [i \in DOMAIN buf |->
        IF i < Len(resp) THEN resp[i + 1]
        ELSE IF i = Len(resp) THEN NUL ELSE buf[i]]

\* Mutant: the bytes are moved starting from the last one.
move_step_backward(st, src) ==
    LET n == strlen(st.m, src)
        k == n - 1 - st.i
    IN  IF st.i >= n THEN st
        ELSE [m |-> Wr(st.m, k, st.m[src + k]), w |-> st.w \cup {k}, i |-> st.i + 1]

\* One turn of the loop that moves the payload to the start of the buffer;
\* st = [m, w, i], src is the offset of the payload.
move_step(st, src) ==
    IF st.i >= strlen(st.m, src) THEN st
    ELSE [m |-> Wr(st.m, st.i, st.m[src + st.i]), w |-> st.w \cup {st.i},
          i |-> st.i + 1]

\* k turns of the loop, a half of them after the other half (a turn after the
\* loop has ended changes nothing).
RECURSIVE move_loop(_, _, _)
move_loop(st, src, k) ==
    IF k = 0 THEN st
    ELSE IF k = 1 THEN move_step(st, src)
    ELSE The({move_loop(half, src, k - k \div 2) :
                 half \in {move_loop(st, src, k \div 2)}})

\* The move of the payload and its termination (lines 818-825, 902-910).
move_payload(m, src) ==
    LET L == move_loop([m |-> m, w |-> {}, i |-> 0], src, Size(m))
    IN  [m |-> Wr(L.m, L.i, NUL), w |-> L.w \cup {L.i}]

\* The failure return: memset(response, '\0', response_len) where response
\* has been advanced to `at`; the result of the call.
unwrap_fail(m, at, response_len, w0, why) ==
    LET c == memset0(m, at, response_len)
    IN  [rc |-> FALSE, m |-> c.m, w_drop |-> w0, w_clear |-> c.w, w_move |-> {},
         why |-> why]

\* tlg_get after _client.get returned 0 (lines 766-827), and, line for line
\* the same, tlg_post after _client.post returned 0 (lines 847-912).
unwrap(buf, response_len) ==
    LET last == strlen(buf, 0) - 1
        m == Wr(buf, last, NUL)
        w0 == {last}
        p1 == cstr_get_substr_pos_end(m, 0, strlen(m, 0), SEP)
    IN  IF p1 = -1 THEN unwrap_fail(m, 0, response_len, w0, "separator")
        ELSE
        LET p2 == cstr_get_substr_pos_end(m, p1, strlen(m, p1), OKM)
        IN  IF p2 = -1 THEN unwrap_fail(m, p1, response_len, w0, "ok")
            ELSE
            LET at2 == p1 + p2
            IN  IF ~StartsWith(m, at2, TRUE4)
                THEN unwrap_fail(m, at2, response_len, w0, "rejected")
                ELSE
                LET p3 == cstr_get_substr_pos_end(m, at2, strlen(m, at2), RESM)
                IN  IF p3 = -1 THEN unwrap_fail(m, at2, response_len, w0, "result")
                    ELSE LET mv == move_payload(m, at2 + p3)
                         IN  [rc |-> TRUE, m |-> mv.m, w_drop |-> w0,
                              w_clear |-> {}, w_move |-> mv.w, why |-> "ok"]

\* uint8_t tlg_get(command, response, response_len, response_timeout); io is
\* what the transport did: [status, resp].
tlg_get(buf, response_len, io) ==
    IF io.status > 0
    THEN [rc |-> FALSE, m |-> buf, w_drop |-> {}, w_clear |-> {}, w_move |-> {},
          why |-> "transport"]
    ELSE unwrap(client_response(buf, io.resp), response_len)

\* uint8_t tlg_post(command, request_response, request_len,
\* request_response_max_size, response_timeout)
tlg_post(buf, request_response_max_size, io) ==
    IF io.status > 0
    THEN [rc |-> FALSE, m |-> buf, w_drop |-> {}, w_clear |-> {}, w_move |-> {},
          why |-> "transport"]
    ELSE unwrap(client_response(buf, io.resp), request_response_max_size)

(***************************************************************************)
(* getUpdates                                                              *)
(***************************************************************************)

kId == <<"i", "d">>
kFirstName == <<"f", "i", "r", "s", "t", "_", "n", "a", "m", "e">>
kResult == <<"r", "e", "s", "u", "l", "t">>
kUpdateId == <<"u", "p", "d", "a", "t", "e", "_", "i", "d">>
kMessageId == <<"m", "e", "s", "s", "a", "g", "e", "_", "i", "d">>
kDate == <<"d", "a", "t", "e">>
kText == <<"t", "e", "x", "t">>
kFrom == <<"f", "r", "o", "m">>
kChat == <<"c", "h", "a", "t">>
kIsBot == <<"i", "s", "_", "b", "o", "t">>
kLastName == <<"l", "a", "s", "t", "_", "n", "a", "m", "e">>
kUsername == <<"u", "s", "e", "r", "n", "a", "m", "e">>
kLanguageCode == <<"l", "a", "n", "g", "u", "a", "g", "e", "_", "c", "o", "d", "e">>
kType == <<"t", "y", "p", "e">>
kTitle == <<"t", "i", "t", "l", "e">>
kAllAdmins ==
    <<"a", "l", "l", "_", "m", "e", "m", "b", "e", "r", "s", "_", "a", "r",
    "e", "_", "a", "d", "m", "i", "n", "i", "s", "t", "r", "a", "t", "o",
    "r", "s">>
kMessage == <<"m", "e", "s", "s", "a", "g", "e">>

\* The format of the request body, around the offset and the timeout.
ReqOffset ==
    <<"{", Q, "o", "f", "f", "s", "e", "t", Q, ":">>
ReqLimit ==
    <<",", " ", Q, "l", "i", "m", "i", "t", Q, ":", "1", ",", " ", Q, "t",
    "i", "m", "e", "o", "u", "t", Q, ":">>
ReqAllowed ==
    <<",", " ", Q, "a", "l", "l", "o", "w", "e", "d", "_", "u", "p", "d",
    "a", "t", "e", "s", Q, ":", "[", Q, "m", "e", "s", "s", "a", "g", "e",
    Q, "]", "}">>

\* x divided by ten: [q, r].
U64DivMod10(x) ==
    LET c4 == x[4]
        c3 == (c4 % 10) * Limb + x[3]
        c2 == (c3 % 10) * Limb + x[2]
        c1 == (c2 % 10) * Limb + x[1]
    IN  [q |-> <<c1 \div 10, c2 \div 10, c3 \div 10, c4 \div 10>>, r |-> c1 % 10]

DigitChar(d) == <<"0", "1", "2", "3", "4", "5", "6", "7", "8", "9">>[d + 1]

RECURSIVE U64Digits(_)
U64Digits(x) ==
    IF x = U64Zero THEN <<>>
    ELSE LET d == U64DivMod10(x) IN Append(U64Digits(d.q), DigitChar(d.r))

\* "%" PRIu64
FormatU64(x) == IF x = U64Zero THEN <<"0">> ELSE U64Digits(x)

\* snprintf(buf, size, "%s", text): the bytes that fit and a terminator.
snprintf(buf, size, text) ==
    LET k == IF Len(text) < size - 1 THEN Len(text) ELSE size - 1
    IN  [i \in DOMAIN buf |->
            IF i < k THEN text[i + 1] ELSE IF i = k THEN NUL ELSE buf[i]]

\* The array a as the code reads it as a string: a read that runs past the
\* end of an unterminated array finds the bytes `tail` and then a terminator.
Ext(a, tail) ==
    LET size == Size(a)
    IN  [i \in 0..(size + Len(tail)) |->
            IF i < size THEN a[i]
            ELSE IF i < size + Len(tail) THEN tail[i - size + 1] ELSE NUL]

\* The array seen through the pointer a + base.
View(a, base) == [i \in 0..(Size(a) - base - 1) |-> a[base + i]]

\* A token array as the code reads it: outside the array a read is undefined
\* and finds junk.
ExtToks(toks, upto, junk) ==
    [i \in 0..upto |-> IF i \in DOMAIN toks THEN toks[i] ELSE junk]

\* The length strncpy copies: the bytes before the first terminator, n at most.
RECURSIVE strnlen(_, _, _)
strnlen(src, i, n) ==
    IF i >= n \/ src[i] = NUL THEN i ELSE strnlen(src, i + 1, n)

\* strncpy(dst, src, n)
strncpy(dst, src, n) ==
    LET l == strnlen(src, 0, n)
    IN  [i \in DOMAIN dst |->
            IF i < n THEN (IF i < l THEN src[i] ELSE NUL) ELSE dst[i]]

\* sscanf(a, "%" SCNd64, &x), x as its 64 bits: [ok, v].
sscanf_d64(a) ==
    LET u == sscanf_u64(a)
        ws == {i \in DOMAIN a : \A j \in 0..i : a[j] \in {" ", "\t", "\n", "\r"}}
        i0 == Cardinality(ws)
        neg == i0 \in DOMAIN a /\ a[i0] = "-"
        d == scan_digits(a, IF i0 \in DOMAIN a /\ a[i0] \in {"+", "-"} THEN i0 + 1 ELSE i0,
                         [v |-> U64Zero, n |-> 0, over |-> FALSE])
        big == d.over \/ d.v[4] >= Limb \div 2
    IN  [ok |-> u.ok,
         v |-> IF big THEN (IF neg THEN <<0, 0, 0, Limb \div 2>>
                            ELSE <<Limb - 1, Limb - 1, Limb - 1, Limb \div 2 - 1>>)
               ELSE u.v]

\* sscanf(a, "%" SCNu32, &x), x widened to 64 bits: [ok, v].
sscanf_u32(a) ==
    LET u == sscanf_u64(a)
    IN  [ok |-> u.ok, v |-> <<u.v[1], u.v[2], 0, 0>>]

\* The keys of the "from" object, in the order getUpdates looks them up.
FromFields ==
    << [key |-> kId, field |-> "id", n |-> MAX_ID_LENGTH, bool |-> FALSE],
       [key |-> kIsBot, field |-> "is_bot", n |-> 0, bool |-> TRUE],
       [key |-> kFirstName, field |-> "first_name", n |-> MAX_USER_LENGTH, bool |-> FALSE],
       [key |-> kLastName, field |-> "last_name", n |-> MAX_USER_LENGTH, bool |-> FALSE],
       [key |-> kUsername, field |-> "username", n |-> MAX_USERNAME_LENGTH, bool |-> FALSE],
       [key |-> kLanguageCode, field |-> "language_code",
        n |-> MAX_LANGUAGE_CODE_LENGTH, bool |-> FALSE] >>

\* The keys of the "chat" object, in the order getUpdates looks them up.
ChatFields ==
    << [key |-> kId, field |-> "id", n |-> MAX_ID_LENGTH, bool |-> FALSE],
       [key |-> kType, field |-> "type", n |-> MAX_CHAT_TYPE_LENGTH, bool |-> FALSE],
       [key |-> kTitle, field |-> "title", n |-> MAX_CHAT_TITLE_LENGTH, bool |-> FALSE],
       [key |-> kUsername, field |-> "username", n |-> MAX_USERNAME_LENGTH, bool |-> FALSE],
       [key |-> kFirstName, field |-> "first_name", n |-> MAX_USER_LENGTH, bool |-> FALSE],
       [key |-> kLastName, field |-> "last_name", n |-> MAX_USER_LENGTH, bool |-> FALSE],
       [key |-> kAllAdmins, field |-> "all_members_are_administrators", n |-> 0,
        bool |-> TRUE] >>

\* What getUpdates works on: b = [buffer, jv, jsv, el, sub, msg, last, conn,
\* reads, tokw, overrun]; reads are the token indices read to materialize a
\* value, [arr, idx, n], tokw the token indices the tokenizer wrote.
Bot ==
    [buffer |-> buffer, jv |-> json_value_str, jsv |-> json_subvalue_str,
     el |-> json_elements, sub |-> json_subelements, msg |-> received_msg,
     last |-> last_received_msg, conn |-> connected, reads |-> {}, tokw |-> {},
     badsub |-> {}, parses |-> {}]

\* One "Check and get value of key" block of a sub-object: the value is
\* materialized in _json_subvalue_str and stored in the field f of
\* received_msg.from or received_msg.chat (obj).
sub_field(b, js2, subE, n2, obj, f, tail) ==
    LET key_position == json_has_key(js2, subE, n2, f.key)
    IN  IF key_position = 0 THEN b
        ELSE LET e == json_get_element_string(js2, subE[key_position + 1], b.jsv,
                                              MAX_JSON_SUBVAL_STR_LEN)
                 src == Ext(e.m, tail)
                 val == IF f.bool THEN StrOf(src) = TRUE4
                        ELSE strncpy(b.msg[obj][f.field], src, f.n)
             IN  [b EXCEPT !.jsv = e.m,
                           !.msg[obj][f.field] = val,
                           !.reads = b.reads \cup
                               {[arr |-> "sub", idx |-> key_position + 1, n |-> n2]}]

RECURSIVE sub_fields(_, _, _, _, _, _, _)
sub_fields(b, js2, subE, n2, obj, fields, tail) ==
    IF fields = <<>> THEN b
    ELSE sub_fields(sub_field(b, js2, subE, n2, obj, Head(fields), tail),
                    js2, subE, n2, obj, Tail(fields), tail)

\* Mutant: the keys are looked up among the tokens written although the
\* tokenizer failed.
sub_parsed_anyway(b, key_position, n, jv, p, obj, fields, junk) ==
    LET b1 == [b EXCEPT !.jv = jv,
                        !.sub = p.toks,
                        !.badsub = IF p.n = 0 THEN b.badsub \cup {obj} ELSE b.badsub]
        n2 == IF p.n = 0 THEN Cardinality(p.w) ELSE p.n
    IN  IF n2 = 0 THEN b1
        ELSE sub_fields(b1, Ext(jv, junk.tail), ExtToks(p.toks, n2, junk.tok), n2,
                        obj, fields, junk.tail)

\* The block of a nested object once its text is tokenized (lines 537-540):
\* jv is _json_value_str holding the text, p the tokenizer's result.
sub_parsed(b, key_position, n, jv, p, obj, fields, junk) ==
    LET b1 == [b EXCEPT !.jv = jv,
                        !.sub = p.toks,
                        !.badsub = IF p.n = 0 THEN b.badsub \cup {obj} ELSE b.badsub,
                        !.reads = b.reads \cup
                            {[arr |-> "el", idx |-> key_position + 1, n |-> n]},
                        !.tokw = b.tokw \cup {[arr |-> "sub", idx |-> i] : i \in p.w}]
    IN  IF p.n = 0 THEN b1
        ELSE sub_fields(b1, Ext(jv, junk.tail), ExtToks(p.toks, p.n, junk.tok), p.n,
                        obj, fields, junk.tail)

\* The block of a nested object once its text is materialized in
\* _json_value_str (jv): the text is tokenized into _json_subelements, of
\* which the tokenizer is told it has tokens_len entries (lines 535-536).
sub_materialized(b, key_position, n, jv, obj, fields, tokens_len, junk) ==
    sub_parsed([b EXCEPT !.parses = b.parses \cup
                    {[of |-> obj, arr |-> "sub", size |-> Size(b.sub),
                      cap |-> tokens_len]}],
               key_position, n, jv,
               json_parse_str(Ext(jv, junk.tail), strlen(Ext(jv, junk.tail), 0),
                              b.sub, tokens_len),
               obj, fields, junk)

\* The block of a nested object ("from" or "chat").
sub_object(b, js, n, key, obj, fields, tokens_len, junk) ==
    LET key_position == json_has_key(js, ExtToks(b.el, n, junk.tok), n, key)
    IN  IF key_position = 0 THEN b
        ELSE sub_materialized(b, key_position, n,
                 json_get_element_string(js, ExtToks(b.el, n, junk.tok)[key_position + 1],
                                         b.jv, MAX_JSON_STR_LEN).m,
                 obj, fields, tokens_len, junk)

\* One "Check and get value of key" block of the update itself: the value is
\* materialized in _json_value_str; [found, b, str].
top_value(b, js, E, n, key, tail) ==
    LET key_position == json_has_key(js, E, n, key)
    IN  IF key_position = 0 THEN [found |-> FALSE, b |-> b, str |-> Ext(b.jv, tail)]
        ELSE LET e == json_get_element_string(js, E[key_position + 1], b.jv,
                                              MAX_JSON_STR_LEN)
             IN  [found |-> TRUE,
                  b |-> [b EXCEPT !.jv = e.m,
                                  !.reads = b.reads \cup
                                      {[arr |-> "el", idx |-> key_position + 1, n |-> n]}],
                  str |-> Ext(e.m, tail)]

\* _last_received_msg after the update_id block (lines 474-487).
next_offset(last, found, conv) ==
    IF ~found THEN last ELSE U64Inc(IF conv.ok THEN conv.v ELSE last)

\* Mutant: an unparsable update leaves the offset where it was.
skip_offset_stuck(last) == last

\* _last_received_msg after an unparsable update (line 465).
skip_offset(last) == U64Inc(last)

\* The update_id block (lines 474-487); t is the value looked up.
update_id_block(last, t) ==
    [t.b EXCEPT !.last = next_offset(last, t.found, sscanf_u64(t.str))]

\* The message_id block (lines 490-500).
message_id_block(t) ==
    LET c == sscanf_d64(t.str)
    IN  IF t.found /\ c.ok THEN [t.b EXCEPT !.msg.message_id = c.v] ELSE t.b

\* The date block (lines 503-512).
date_block(t) ==
    LET c == sscanf_u32(t.str)
    IN  IF t.found /\ c.ok THEN [t.b EXCEPT !.msg.date = c.v] ELSE t.b

\* The text block (lines 515-524).
text_block(t) ==
    IF t.found
    THEN [t.b EXCEPT !.msg.text = snprintf(t.b.msg.text, MAX_TEXT_LENGTH, StrOf(t.str))]
    ELSE t.b

\* The value of a key of the update, looked up in _json_elements.
update_value(b, js, n, key, junk) ==
    top_value(b, js, ExtToks(b.el, n, junk.tok), n, key, junk.tail)

\* The blocks of the plain values of the update, in the order of the code.
plain_values(b, js, n, junk) ==
    text_block(update_value(
        date_block(update_value(
            message_id_block(update_value(
                update_id_block(b.last, update_value(b, js, n, kUpdateId, junk)),
                js, n, kMessageId, junk)),
            js, n, kDate, junk)),
        js, n, kText, junk))

\* getUpdates from the tokenizer's success on (lines 474-745); js is the
\* update's text, n the number of its tokens.
build_record(b, js, n, junk) ==
    sub_object(sub_object(plain_values(b, js, n, junk), js, n, kFrom, "from",
                          FromFields, MAX_JSON_SUBELEMENTS, junk),
               js, n, kChat, "chat", ChatFields, MAX_JSON_ELEMENTS, junk)

\* Mutant: the connection is kept whatever was asked.
drop_never(b, dkc) == b

\* disconnect() when _dont_keep_connection is set.
drop_if_asked(b, dkc) == IF dkc /\ b.conn THEN [b EXCEPT !.conn = FALSE] ELSE b

\* The removal of the list brackets (lines 415-423): [m, base].
strip_list(m) ==
    LET len == strlen(m, 0)
    IN  IF len >= 2
        THEN LET m1 == IF m[len - 1] = "]" THEN Wr(m, len - 1, NUL) ELSE m
                 m2 == IF m1[0] = "[" THEN Wr(m1, 0, NUL) ELSE m1
             IN  [m |-> m2, base |-> 1]
        ELSE [m |-> m, base |-> 0]

\* cstr_rm_char(ptr_response, strlen(ptr_response), c)
strip_char(m, c) == cstr_rm_char(m, 0, strlen(m, 0), c)

\* getUpdates once the update is tokenized (lines 460-745): e is the bot, js
\* the update's text, p the tokenizer's result.
getUpdates_parsed(e, dkc, junk, sent, post, js, p) ==
    IF p.n = 0
    THEN [ret |-> 0, b |-> drop_if_asked([e EXCEPT !.last = skip_offset(e.last)], dkc),
          path |-> "unparsable", request |-> StrOf(sent), post |-> post]
    ELSE [ret |-> 1, b |-> drop_if_asked(build_record(e, js, p.n, junk), dkc),
          path |-> "record", request |-> StrOf(sent), post |-> post]

\* getUpdates once the response is known to hold an update (lines 444-458).
getUpdates_update(d, dkc, junk, sent, post, js, p) ==
    getUpdates_parsed([d EXCEPT !.msg = clear_msg_data(d.msg),
                                !.el = p.toks,
                                !.sub = ZeroToks(MAX_JSON_SUBELEMENTS),
                                !.tokw = {[arr |-> "el", idx |-> i] : i \in p.w},
                                !.parses = {[of |-> "update", arr |-> "el",
                                             size |-> Size(d.el),
                                             cap |-> MAX_JSON_ELEMENTS]}],
                      dkc, junk, sent, post, js, p)

\* getUpdates once line ends and list brackets are removed (lines 426-458);
\* sl is the buffer and the offset of ptr_response in it.
getUpdates_stripped(c, dkc, junk, sent, post, sl) ==
    IF sl.m[sl.base] = NUL
    THEN [ret |-> 0, b |-> drop_if_asked([c EXCEPT !.buffer = sl.m], dkc),
          path |-> "empty", request |-> StrOf(sent), post |-> post]
    ELSE getUpdates_update([c EXCEPT !.buffer = sl.m], dkc, junk, sent, post,
                           View(sl.m, sl.base),
                           json_parse_str(View(sl.m, sl.base),
                                          strlen(View(sl.m, sl.base), 0),
                                          ZeroToks(MAX_JSON_ELEMENTS), MAX_JSON_ELEMENTS))

\* Mutant: a failed request clears the record of the previous update.
getUpdates_posted_clearing(c, dkc, junk, sent, post) ==
    IF ~post.rc
    THEN [ret |-> 0, b |-> [c EXCEPT !.buffer = post.m, !.conn = FALSE,
                                     !.msg = clear_msg_data(c.msg)],
          path |-> "request", request |-> StrOf(sent), post |-> post]
    ELSE getUpdates_stripped(c, dkc, junk, sent, post,
                             strip_list(strip_char(strip_char(post.m, "\r"), "\n")))

\* getUpdates once tlg_post has returned (lines 393-423).
getUpdates_posted(c, dkc, junk, sent, post) ==
    IF ~post.rc
    THEN [ret |-> 0, b |-> [c EXCEPT !.buffer = post.m, !.conn = FALSE],
          path |-> "request", request |-> StrOf(sent), post |-> post]
    ELSE getUpdates_stripped(c, dkc, junk, sent, post,
                             strip_list(strip_char(strip_char(post.m, "\r"), "\n")))

\* getUpdates once the bot is connected (lines 383-393): the request is
\* written in the buffer and posted.
getUpdates_connected(c, dkc, io, junk, sent) ==
    getUpdates_posted(c, dkc, junk, sent, tlg_post(sent, HTTP_MAX_RES_LENGTH, io))

\* uint8_t getUpdates(void): [ret, b, path, request, post].  io is what the
\* transport does: conn, the result of _client.connect should the bot connect,
\* and status and resp, those of _client.post.
getUpdates(b, timeout, dkc, io, junk) ==
    LET c == IF b.conn THEN b ELSE [b EXCEPT !.conn = (io.conn = 1)]
    IN  IF ~c.conn
        THEN [ret |-> 0, b |-> c, path |-> "connect", request |-> <<>>,
              post |-> [rc |-> FALSE, m |-> c.buffer, w_drop |-> {}, w_clear |-> {},
                        w_move |-> {}, why |-> "connect"]]
        ELSE getUpdates_connected(c, dkc, io, junk,
                 snprintf(c.buffer, HTTP_MAX_RES_LENGTH,
                          ReqOffset \o FormatU64(b.last) \o ReqLimit
                              \o FormatU64(U64(timeout)) \o ReqAllowed))

(***************************************************************************)
(* connect, getMe, sendMessage                                             *)
(***************************************************************************)

MAX_TMP_BUFFER_LENGTH == 40

\* uint8_t connect(void) as its callers use it: a connected bot stays
\* connected, another one is connected when _client.connect returns 1.
connect(b, io) == IF b.conn THEN b ELSE [b EXCEPT !.conn = (io.conn = 1)]

\* Whether the call had to connect.
connects(b) == ~b.conn

\* Mutant: a failed request leaves the connection as it is.
getMe_requested_keeping(c, dkc, r) ==
    IF ~r.rc
    THEN [ret |-> FALSE, b |-> [c EXCEPT !.buffer = r.m],
          path |-> "request", posted |-> TRUE, body |-> <<>>]
    ELSE [ret |-> TRUE, b |-> drop_if_asked([c EXCEPT !.buffer = r.m], dkc),
          path |-> "done", posted |-> TRUE, body |-> <<>>]

\* getMe once tlg_get has returned (lines 207-239).
getMe_requested(c, dkc, r) ==
    IF ~r.rc
    THEN [ret |-> FALSE, b |-> [c EXCEPT !.buffer = r.m, !.conn = FALSE],
          path |-> "request", posted |-> TRUE, body |-> <<>>]
    ELSE [ret |-> TRUE, b |-> drop_if_asked([c EXCEPT !.buffer = r.m], dkc),
          path |-> "done", posted |-> TRUE, body |-> <<>>]

\* getMe once the bot is connected.
getMe_connected(c, dkc, io) ==
    IF ~c.conn
    THEN [ret |-> FALSE, b |-> c, path |-> "connect", posted |-> FALSE, body |-> <<>>]
    ELSE getMe_requested(c, dkc, tlg_get(c.buffer, HTTP_MAX_RES_LENGTH, io))

\* uint8_t getMe(void): [ret, b, path, posted, body].
getMe(b, dkc, io) == getMe_connected(connect(b, io), dkc, io)

\* The pieces of the formats of sendMessage.
MsgChatId ==
    <<"{", Q, "c", "h", "a", "t", "_", "i", "d", Q, ":">>
MsgText ==
    <<",", " ", Q, "t", "e", "x", "t", Q, ":", Q>>
MsgEnd ==
    <<Q, "}">>
FieldParseMode ==
    <<",", Q, "p", "a", "r", "s", "e", "_", "m", "o", "d", "e", Q, ":">>
FieldPreview ==
    <<",", Q, "d", "i", "s", "a", "b", "l", "e", "_", "w", "e", "b", "_",
    "p", "a", "g", "e", "_", "p", "r", "e", "v", "i", "e", "w", Q, ":", "t",
    "r", "u", "e", "}">>
FieldNotification ==
    <<",", Q, "d", "i", "s", "a", "b", "l", "e", "_", "n", "o", "t", "i",
    "f", "i", "c", "a", "t", "i", "o", "n", Q, ":", "t", "r", "u", "e", "}">>
FieldReplyTo ==
    <<",", Q, "r", "e", "p", "l", "y", "_", "t", "o", "_", "m", "e", "s",
    "s", "a", "g", "e", "_", "i", "d", Q, ":">>
FieldReplyMarkup ==
    <<",", Q, "r", "e", "p", "l", "y", "_", "m", "a", "r", "k", "u", "p", Q,
    ":">>
Markdown ==
    <<"M", "a", "r", "k", "d", "o", "w", "n">>
HTML ==
    <<"H", "T", "M", "L">>

\* snprintf(tmp, MAX_TMP_BUFFER_LENGTH, ...) and the string tmp then holds.
via_tmp(text) == StrOf(snprintf(Stale(MAX_TMP_BUFFER_LENGTH), MAX_TMP_BUFFER_LENGTH, text))

\* The body being built: the buffer and whether every append succeeded.
append_result(r) == [m |-> r.m, ok |-> r.rc]

\* One optional field: when it is wanted and no earlier append failed, the
\* last brace is removed and the field appended with cstr_strncat.
append_field(st, wanted, field) ==
    IF ~st.ok \/ ~wanted THEN st
    ELSE append_result(cstr_strncat(Wr(st.m, strlen(st.m, 0) - 1, NUL),
                                    HTTP_MAX_RES_LENGTH, Arr(field), Len(field)))

\* The optional fields, in the order of the code (lines 273-337).
append_fields(m, a) ==
    append_field(
        append_field(
            append_field(
                append_field(
                    append_field([m |-> m, ok |-> TRUE],
                                 a.parse_mode \in {Markdown, HTML},
                                 via_tmp(FieldParseMode \o a.parse_mode \o MsgEnd)),
                    a.disable_web_page_preview, FieldPreview),
                a.disable_notification, FieldNotification),
            a.reply_to_message_id # U64Zero,
            via_tmp(FieldReplyTo \o FormatU64(a.reply_to_message_id) \o <<"}">>)),
        a.reply_markup # <<>>,
        via_tmp(FieldReplyMarkup \o a.reply_markup \o <<"}">>))

\* sendMessage once tlg_post has returned (lines 345-365).
sendMessage_posted(c, dkc, body, post) ==
    IF ~post.rc
    THEN [ret |-> FALSE, b |-> [c EXCEPT !.buffer = post.m, !.conn = FALSE],
          path |-> "request", posted |-> TRUE, body |-> body]
    ELSE [ret |-> TRUE, b |-> drop_if_asked([c EXCEPT !.buffer = post.m], dkc),
          path |-> "done", posted |-> TRUE, body |-> body]

\* sendMessage once the body is built: a failed append ends the call in
\* cant_create_send_msg, otherwise the buffer is posted.
sendMessage_built(c, dkc, io, st) ==
    IF ~st.ok
    THEN [ret |-> FALSE, b |-> [c EXCEPT !.buffer = st.m, !.conn = FALSE],
          path |-> "body", posted |-> FALSE, body |-> StrOf(st.m)]
    ELSE sendMessage_posted(c, dkc, StrOf(st.m),
                            tlg_post(st.m, HTTP_MAX_RES_LENGTH, io))

\* sendMessage once the bot is connected (lines 270-342).
sendMessage_connected(c, dkc, a, io) ==
    IF ~c.conn
    THEN [ret |-> FALSE, b |-> c, path |-> "connect", posted |-> FALSE, body |-> <<>>]
    ELSE sendMessage_built(c, dkc, io,
             append_fields(snprintf(c.buffer, HTTP_MAX_RES_LENGTH,
                                    MsgChatId \o a.chat_id \o MsgText \o a.text
                                        \o MsgEnd),
                           a))

\* uint8_t sendMessage(chat_id, text, parse_mode, disable_web_page_preview,
\* disable_notification, reply_to_message_id, reply_markup):
\* [ret, b, path, posted, body]; body is the string in the buffer when the
\* body is built.
sendMessage(b, dkc, a, io) == sendMessage_connected(connect(b, io), dkc, a, io)

(***************************************************************************)
(* The call of cstr_strncat on every small destination and source.         *)
(***************************************************************************)

MaxCatCap == 3
MaxCatSrc == 3
CatBytes == {NUL, "a", "b"}

Idle == [fn |-> "idle"]

\* The helpers are called on a bot that has just been constructed.
InitUnit == unit = Idle /\ Constructed(FALSE, NUL)

CallStrncat ==
    /\ unit = Idle
    /\ UNCHANGED botvars
    /\ \E max \in 1..MaxCatCap, src_len \in 0..MaxCatSrc :
       \E dest \in [0..(max - 1) -> CatBytes], src \in [0..(src_len - 1) -> CatBytes] :
          /\ Terminated(dest)
          /\ LET r == cstr_strncat(dest, max, src, src_len)
             IN  unit' = [fn |-> "cstr_strncat", dest |-> dest, max |-> max,
                          src |-> src, src_len |-> src_len,
                          out |-> r.m, w |-> r.w, rc |-> r.rc]

InitCat == InitUnit
NextCat == CallStrncat
SpecCat == InitCat /\ [][NextCat]_vars

CatDone == unit.fn = "cstr_strncat"

\* The number of leading source bytes that follow the old content in dest.
CatKept ==
    LET d == strlen(unit.dest, 0)
    IN  Cardinality({n \in 1..unit.src_len :
            \A k \in 0..(n - 1) :
                d + k < strlen(unit.out, 0) /\ unit.out[d + k] = unit.src[k]})

\* C5: cstr_strncat returns false whenever fewer than src_len source bytes
\* remain in dest after the call and true only when all of them were appended,
\* the case strlen(dest) + src_len = dest_max_size included.
C5_FlagsEveryTruncation ==
    (CatDone /\ (\A k \in DOMAIN unit.src : unit.src[k] # NUL))
        => (unit.rc <=> CatKept = unit.src_len)

\* C6: for dest terminated inside [0, dest_max_size), dest_max_size >= 1,
\* cstr_strncat writes only at indices in [0, dest_max_size), leaves a
\* terminator at an index <= dest_max_size - 1, and keeps the old bytes of
\* dest as a prefix.
C6_StrncatInBounds ==
    CatDone =>
        /\ unit.w \subseteq 0..(unit.max - 1)
        /\ \E t \in 0..(unit.max - 1) : unit.out[t] = NUL
        /\ \A k \in 0..(strlen(unit.dest, 0) - 1) : unit.out[k] = unit.dest[k]

\* The destination was full up to its last byte and the source did not fit.
C6_Witness ==
    /\ CatDone
    /\ unit.max = MaxCatCap
    /\ strlen(unit.dest, 0) = unit.max - 2
    /\ unit.src_len = MaxCatSrc
    /\ ~unit.rc

(***************************************************************************)
(* The calls of the navigator on small texts.                              *)
(***************************************************************************)

MaxElemStr == 3
MaxElemCap == 3
ElemBytes == {"a", "b"}

RECURSIVE TuplesUpTo(_, _)
TuplesUpTo(B, n) ==
    IF n = 0 THEN {<<>>}
    ELSE LET T == TuplesUpTo(B, n - 1)
         IN  T \cup {Append(t, b) : t \in {x \in T : Len(x) = n - 1}, b \in B}

CallElementString ==
    /\ unit = Idle
    /\ UNCHANGED botvars
    /\ \E s \in TuplesUpTo(ElemBytes, MaxElemStr), cap \in 1..MaxElemCap :
       \E start \in 0..Len(s) :
       \E end \in start..Len(s) :
          LET tok == [type |-> "string", start |-> start, end |-> end]
              r == json_get_element_string(CArr(s, Len(s) + 1), tok, Stale(cap), cap)
          IN  unit' = [fn |-> "json_get_element_string", json_str |-> s,
                       token |-> tok, cap |-> cap, out |-> r.m, w |-> r.w]

MaxNavTokens == 5
MaxNavCap == 3
kA == <<"a">>
kK == <<"k">>
kV == <<"v">>

NavTexts ==
    { Obj(<<KV(kK, S(kV))>>),
      Obj(<<KV(kA, S(kK))>>),
      Obj(<<KV(kA, S(kV)), KV(kK, <<"1">>)>>),
      Obj(<<KV(kK, <<"1">>), KV(kA, S(kK))>>),
      Obj(<<KV(kA, Obj(<<KV(kK, S(kV))>>))>>),
      Obj(<<KV(kA, S(kV)), KV(kV, S(kK))>>),
      Obj(<<KV(kA, S(kV)), KV(kV, S(kA)), KV(kK, S(kK))>>),
      Obj(<<>>),
      <<"[">> \o S(kK) \o <<"]">>,
      <<"{">> \o S(kK) \o <<":">> \o <<Q, "v">>,
      <<"{">> \o KV(kK, S(kV)) }

CallGetKeyValue ==
    /\ unit = Idle
    /\ UNCHANGED botvars
    /\ \E text \in NavTexts, key \in {kA, kK, kV}, cap \in 1..MaxNavCap,
          junk \in JunkToks :
          LET js == CArr(text, Len(text) + 1)
              p == json_parse_str(js, strlen(js, 0), ZeroToks(MaxNavTokens),
                                  MaxNavTokens)
              r == json_get_key_value(key, js, p.toks, p.n, Stale(cap), cap, junk)
          IN  unit' = [fn |-> "json_get_key_value", json_str |-> text, key |-> key,
                       cap |-> cap, num_tokens |-> p.n, toks |-> p.toks,
                       rc |-> r.rc, out |-> r.m, idx |-> r.idx]

kKA == <<"k", "a">>

\* Objects with a duplicated key, and with keys one a prefix of the other.
HasKeyTexts ==
    { Obj(<<KV(kK, <<"1">>), KV(kK, <<"2">>)>>),
      Obj(<<KV(kKA, <<"1">>), KV(kK, <<"2">>)>>),
      Obj(<<KV(kK, <<"1">>), KV(kKA, <<"2">>)>>),
      Obj(<<KV(kKA, <<"1">>)>>),
      Obj(<<KV(kA, <<"1">>), KV(kV, <<"2">>)>>),
      Obj(<<KV(kA, Obj(<<KV(kK, <<"1">>)>>))>>),
      Obj(<<>>),
      <<"{">> \o KV(kK, <<"1">>) }

CallHasKey ==
    /\ unit = Idle
    /\ UNCHANGED botvars
    /\ \E text \in HasKeyTexts, key \in {kA, kK, kKA} :
          LET js == CArr(text, Len(text) + 1)
              p == json_parse_str(js, strlen(js, 0), ZeroToks(MaxNavTokens),
                                  MaxNavTokens)
          IN  unit' = [fn |-> "json_has_key", json_str |-> text, key |-> key,
                       num_tokens |-> p.n, toks |-> p.toks,
                       pos |-> json_has_key(js, p.toks, p.n, key)]

InitNav == InitUnit
NextNav == CallElementString \/ CallGetKeyValue \/ CallHasKey
SpecNav == InitNav /\ [][NextNav]_vars

ElemDone == unit.fn = "json_get_element_string"

\* C3: for every token of byte length L and every outCap >= 1,
\* json_get_element_string leaves in out exactly the first min(L, outCap-1)
\* bytes of the token's range followed by a terminator inside [0, outCap).
C3_MaterializeTerminated ==
    ElemDone =>
        LET L == unit.token.end - unit.token.start
            n == IF L < unit.cap - 1 THEN L ELSE unit.cap - 1
        IN  /\ \A i \in 0..(n - 1) : unit.out[i] = unit.json_str[unit.token.start + i + 1]
            /\ unit.out[n] = NUL

HasKeyDone == unit.fn = "json_has_key" /\ unit.num_tokens > 0

\* The bytes of token i in the text.
TokenText(text, tok) == SubSeq(text, tok.start + 1, tok.end)

\* The string tokens whose bytes are the key's.
Named(text, toks, n, key) ==
    {i \in 0..(n - 1) : toks[i].type = "string" /\ TokenText(text, toks[i]) = key}

\* C15: on the tokens of a successful json_parse_str, json_has_key returns 0
\* when no string token has the key's length and bytes, and otherwise the
\* smallest index of such a token, which is at least 1; a key that is a
\* proper prefix or extension of a token does not match it.
C15_HasKeyFirstExact ==
    HasKeyDone =>
        LET named == Named(unit.json_str, unit.toks, unit.num_tokens, unit.key)
        IN  IF named = {} THEN unit.pos = 0
            ELSE unit.pos >= 1 /\ unit.pos \in named
                 /\ \A i \in named : unit.pos <= i

\* The key "k" in {"ka":1,"k":2}: the token "ka" is passed over.
C15_Witness ==
    /\ HasKeyDone /\ unit.key = kK /\ unit.pos = 3
    /\ TokenText(unit.json_str, unit.toks[1]) = kKA

\* A string token that is the name of a member: a colon follows its quote.
IsKey(text, tok) ==
    /\ tok.type = "string"
    /\ tok.end + 2 <= Len(text)
    /\ text[tok.end + 2] = ":"

\* C18: the value json_get_key_value extracts for a key is the token paired
\* with a key token of that name; a string value whose bytes are the key's
\* is not taken for the key.
C18_ValueOfItsKey ==
    (unit.fn = "json_get_key_value" /\ unit.num_tokens > 0 /\ unit.rc) =>
        \A i \in unit.idx :
            /\ i \in 2..(unit.num_tokens - 1)
            /\ IsKey(unit.json_str, unit.toks[i - 1])
            /\ TokenText(unit.json_str, unit.toks[i - 1]) = unit.key

(***************************************************************************)
(* The calls of tlg_get and tlg_post on a delivered response.              *)
(***************************************************************************)


UnwHeaders == {<<>>, <<"H">>, <<"H", "\r", "\n", "A">>}
UnwSeps == {SEP, <<"\r", "\n">>, <<>>}
UnwOks == {OKM \o TRUE4, OKM \o <<"f", "a", "l", "s", "e">>,
           OKM \o <<"t", "r", "u">>, <<>>}
UnwResults == {RESM, <<>>}
UnwPayloads ==
    { Obj(<<KV(kId, <<"1">>), KV(kFirstName, S(<<"B">>))>>),
      Obj(<<KV(kResult, <<"1">>)>>),
      <<"[", "]">>,
      <<"1">> }

\* header, separator, {<ok>,<result marker><payload>}
Envelope(p) ==
    p.hdr \o p.sep \o <<"{">> \o p.ok \o <<",">> \o p.res \o p.payload \o <<"}">>

UnwParts ==
    [hdr : UnwHeaders, sep : UnwSeps, ok : UnwOks, res : UnwResults,
     payload : UnwPayloads]

\* What the transport may do: fail, or deliver an envelope or nothing at all.
NoParts == [hdr |-> <<>>, sep |-> <<>>, ok |-> <<>>, res |-> <<>>, payload |-> <<>>]

UnwIO ==
    {[status |-> 1, kind |-> "failed", resp |-> <<>>, parts |-> NoParts],
     [status |-> 0, kind |-> "empty", resp |-> <<>>, parts |-> NoParts]}
    \cup {[status |-> 0, kind |-> "envelope", resp |-> Envelope(p), parts |-> p] :
             p \in UnwParts}

\* _buffer before the call: as constructed, or full of an earlier request.
UnwBuffers ==
    {[i \in 0..(HTTP_MAX_RES_LENGTH - 1) |-> NUL],
     [i \in 0..(HTTP_MAX_RES_LENGTH - 1) |->
         IF i < HTTP_MAX_RES_LENGTH - 1 THEN "#" ELSE NUL]}

UnwCall(op, io, r) ==
    [op |-> op, n |-> 1, io |-> io, rc |-> r.rc, why |-> r.why, w_drop |-> r.w_drop,
     w_clear |-> r.w_clear, w_move |-> r.w_move]

UnwFrame ==
    UNCHANGED <<unit, json_value_str, json_subvalue_str, json_elements,
                json_subelements, received_msg, last_received_msg,
                long_poll_timeout, dont_keep_connection, connected>>

CallTlgGet ==
    /\ call = NoCall
    /\ \E io \in UnwIO :
          /\ Len(io.resp) < HTTP_MAX_RES_LENGTH
          /\ LET r == tlg_get(buffer, HTTP_MAX_RES_LENGTH, io)
             IN  buffer' = r.m /\ call' = UnwCall("tlg_get", io, r)
    /\ UnwFrame

CallTlgPost ==
    /\ call = NoCall
    /\ \E io \in UnwIO :
          /\ Len(io.resp) < HTTP_MAX_RES_LENGTH
          /\ LET r == tlg_post(buffer, HTTP_MAX_RES_LENGTH, io)
             IN  buffer' = r.m /\ call' = UnwCall("tlg_post", io, r)
    /\ UnwFrame

InitUnwrap ==
    /\ unit = Idle
    /\ \E b \in UnwBuffers :
          /\ buffer = b
          /\ json_value_str = [i \in 0..(MAX_JSON_STR_LEN - 1) |-> NUL]
          /\ json_subvalue_str = [i \in 0..(MAX_JSON_SUBVAL_STR_LEN - 1) |-> NUL]
          /\ json_elements = ZeroToks(MAX_JSON_ELEMENTS)
          /\ json_subelements = ZeroToks(MAX_JSON_SUBELEMENTS)
          /\ long_poll_timeout = DEFAULT_TELEGRAM_LONG_POLL_S
          /\ last_received_msg = UINT64_MAX
          /\ dont_keep_connection = FALSE
          /\ connected = TRUE
          /\ received_msg = clear_msg_data(RawMsg(NUL))
          /\ call = NoCall
NextUnwrap == CallTlgGet \/ CallTlgPost
SpecUnwrap == InitUnwrap /\ [][NextUnwrap]_vars

UnwDone == call.op \in {"tlg_get", "tlg_post"} /\ call.io.status = 0

Delivered == UnwDone /\ call.io.kind = "envelope"

InBuffer == 0..(HTTP_MAX_RES_LENGTH - 1)

\* C1: when the body carries an ok value that is not true, tlg_get/tlg_post
\* return failure and every byte of the buffer in [0, capacity) is the end
\* marker on return, the bytes of the header included.
C1_RejectedClearsBuffer ==
    (Delivered /\ call.io.parts.sep = SEP
        /\ call.io.parts.ok \in {OKM \o <<"f", "a", "l", "s", "e">>,
                                 OKM \o <<"t", "r", "u">>})
        => (~call.rc /\ \A i \in InBuffer : buffer[i] = NUL)

\* C2: on every failure path of the unwrapper the buffer-clearing write
\* touches only indices in [0, capacity), wherever the separator and the
\* markers are.
C2_ClearInBounds ==
    (Delivered /\ ~call.rc) => call.w_clear \subseteq InBuffer

\* C8: for a response made of a header, the separator, an "ok":true marker
\* and a later "result": marker, tlg_get/tlg_post succeed and the buffer
\* holds, from offset 0 and terminated, the bytes after the first "result":
\* marker up to but excluding the last byte of the response.
C8_PayloadCompacted ==
    (Delivered /\ call.io.parts.sep = SEP /\ call.io.parts.ok = OKM \o TRUE4
        /\ call.io.parts.res = RESM)
        => (call.rc /\ Terminated(buffer) /\ StrOf(buffer) = call.io.parts.payload)

\* A payload longer than the distance it is moved: source and destination
\* of the move overlap.
C8_Witness ==
    /\ Delivered /\ call.rc
    /\ call.io.parts.sep = SEP /\ call.io.parts.ok = OKM \o TRUE4
    /\ call.io.parts.res = RESM
    /\ Len(call.io.parts.payload) > Len(call.io.resp) - 1 - Len(call.io.parts.payload)
    /\ buffer[0] = "{"

\* C17: the removal of the last byte of the response writes only inside
\* [0, capacity) for every response delivered with status 0, the empty one
\* included; an empty response ends in the failure of the separator search
\* with no write before the start of the buffer.
C17_DropInBounds ==
    UnwDone =>
        /\ call.w_drop \subseteq InBuffer
        /\ call.io.kind = "empty" => (~call.rc /\ call.why = "separator")

(***************************************************************************)
(* The calls of getUpdates on a constructed bot.                           *)
(***************************************************************************)

MaxCalls == 2

\* "message":{members}
Msg(members) == KV(kMessage, Obj(members))

\* {"update_id":id,"message":{members}}
Upd(id, members) == Obj(<<KV(kUpdateId, id), Msg(members)>>)

\* The text with its last byte cut off.
Cut(t) == SubSeq(t, 1, Len(t) - 1)

Updates ==
    { Upd(<<"5">>, <<KV(kMessageId, <<"9">>), KV(kText, S(<<"h", "i">>))>>),
      Upd(<<"5">>, <<KV(kText, S(<<"h", "e", "l", "l", "o">>))>>),
      Upd(<<"6">>, <<KV(kFrom, Obj(<<KV(kId, <<"1", "2", "3", "4">>)>>))>>),
      Upd(<<"6">>, <<KV(kFrom, Obj(<<KV(kId, <<"7">>), KV(kIsBot, TRUE4)>>))>>),
      Upd(<<"6">>, <<KV(kFrom, Obj(<<KV(kId, <<"7">>),
                                       KV(kFirstName, S(<<"B", "o">>))>>))>>),
      Upd(<<"7">>, <<KV(kDate, <<"1">>),
                     KV(kChat, Obj(<<KV(kId, <<"7">>), KV(kType, S(<<"p", "r">>))>>))>>),
      Obj(<<Msg(<<KV(kMessageId, <<"9">>)>>)>>),
      Upd(<<"5">>, <<KV(<<"x">>, S(kDate))>>),
      Upd(S(<<"x">>), <<KV(kText, S(<<"h", "i">>))>>),
      Cut(Upd(<<"5">>, <<KV(kText, S(<<"h", "i">>))>>)),
      Upd(<<"5">>, <<KV(<<"a">>, <<"1">>), KV(<<"b">>, <<"1">>), KV(<<"c">>, <<"1">>),
                     KV(<<"d">>, <<"1">>), KV(<<"e">>, <<"1">>), KV(<<"f">>, <<"1">>)>>),
      <<"{", "\r", "\n">> \o KV(kUpdateId, <<"8">>) \o <<"}", "\n">>,
      <<>> }

\* header, separator, {"ok":<ok>,"result":[<update>]}
ListEnvelope(ok, upd) ==
    <<"H">> \o SEP \o <<"{">> \o OKM \o ok \o <<",">> \o RESM
        \o <<"[">> \o upd \o <<"]", "}">>

NoUpdate == <<"-">>

\* What the transport may do in one call: refuse the connection, fail the
\* request, or answer it.
UpdIO ==
    {[conn |-> 1, status |-> 0, kind |-> "update", upd |-> u,
      resp |-> ListEnvelope(TRUE4, u)] : u \in Updates}
    \cup {[conn |-> 1, status |-> 0, kind |-> "rejected", upd |-> NoUpdate,
           resp |-> ListEnvelope(<<"f", "a", "l", "s", "e">>, <<>>)],
          [conn |-> 1, status |-> 0, kind |-> "malformed", upd |-> NoUpdate,
           resp |-> <<"H", "\r", "\n", "{", "}">>],
          [conn |-> 1, status |-> 1, kind |-> "failed", upd |-> NoUpdate,
           resp |-> <<>>],
          [conn |-> 0, status |-> 1, kind |-> "failed", upd |-> NoUpdate,
           resp |-> <<>>],
          [conn |-> -1, status |-> 1, kind |-> "failed", upd |-> NoUpdate,
           resp |-> <<>>]}

\* What an undefined read finds: a token outside a token array, and the
\* bytes after an unterminated array.
Junk == {[tok |-> ZeroTok, tail |-> <<>>],
         [tok |-> [type |-> "string", start |-> 0, end |-> 1], tail |-> <<"#">>]}

CallGetUpdates ==
    /\ call.n < MaxCalls
    /\ \E io \in UpdIO, junk \in Junk :
          /\ Len(io.resp) < HTTP_MAX_RES_LENGTH
          /\ \E r \in {getUpdates(Bot, long_poll_timeout, dont_keep_connection, io, junk)} :
                 /\ buffer' = r.b.buffer
                 /\ json_value_str' = r.b.jv
                 /\ json_subvalue_str' = r.b.jsv
                 /\ json_elements' = r.b.el
                 /\ json_subelements' = r.b.sub
                 /\ received_msg' = r.b.msg
                 /\ last_received_msg' = r.b.last
                 /\ connected' = r.b.conn
                 /\ call' = [op |-> "getUpdates", n |-> call.n + 1, io |-> io,
                             ret |-> r.ret, path |-> r.path, request |-> r.request,
                             w_clear |-> r.post.w_clear, reads |-> r.b.reads,
                             tokw |-> r.b.tokw, last0 |-> last_received_msg]
    /\ UNCHANGED <<unit, long_poll_timeout, dont_keep_connection>>

InitUpd == unit = Idle /\ \E dkc \in BOOLEAN, g \in {NUL, "?"} : Constructed(dkc, g)
NextUpd == CallGetUpdates
SpecUpd == InitUpd /\ [][NextUpd]_vars

UpdDone == call.op = "getUpdates"

\* The string fields of received_msg.
StringFields ==
    {received_msg.text,
     received_msg.from.id, received_msg.from.first_name, received_msg.from.last_name,
     received_msg.from.username, received_msg.from.language_code,
     received_msg.chat.id, received_msg.chat.type, received_msg.chat.title,
     received_msg.chat.username, received_msg.chat.first_name,
     received_msg.chat.last_name}

\* C4: after any getUpdates call every string field of received_msg holds a
\* terminator inside its own capacity.
C4_FieldsTerminated ==
    UpdDone => \A f \in StringFields : Terminated(f)

\* C7: every token index read while a value is extracted, the index returned
\* by json_has_key plus one, is below the token count the tokenizer returned.
C7_ReadsBelowCount ==
    UpdDone => \A r \in call.reads : r.idx < r.n

\* y is x plus one modulo 2^64: the limbs below the first limb that is not
\* all ones become zero, that limb grows by one, the limbs above it stay.
PlusOne(x, y) ==
    \E k \in 1..5 :
        /\ \A j \in 1..(k - 1) : x[j] = Limb - 1 /\ y[j] = 0
        /\ k <= 4 => x[k] < Limb - 1 /\ y[k] = x[k] + 1
        /\ \A j \in (k + 1)..4 : y[j] = x[j]

Unparsable == UpdDone /\ call.path = "unparsable"

\* C9: when the tokenizer rejects a non-empty update payload, getUpdates
\* returns 0 and _last_received_msg is its value before the call plus one,
\* modulo 2^64.
C9_UnparsableAdvances ==
    Unparsable =>
        /\ call.ret = 0
        /\ call.io.upd # <<>>
        /\ PlusOne(call.last0, last_received_msg)
        /\ last_received_msg # call.last0

\* The first call after construction meets an unparsable update: the offset
\* wraps from UINT64_MAX to zero.
C9_Witness ==
    /\ Unparsable
    /\ call.last0 = UINT64_MAX
    /\ last_received_msg = U64Zero

\* C10: no call of getUpdates that returns 1 leaves _last_received_msg, the
\* offset of the next request, at the value it had before the call.
C10_RecordAdvancesOffset ==
    (UpdDone /\ call.ret = 1) => last_received_msg # call.last0

(***************************************************************************)
(* The calls of getUpdates on described updates: the record that is built. *)
(***************************************************************************)

MaxRecCalls == 2

\* A member of a described object: the key, the text of the value and
\* whether the value is a string.
Mem(k, v, quoted) == [k |-> k, v |-> v, quoted |-> quoted]

RECURSIVE RenderMembers(_)
RenderMembers(ms) ==
    IF ms = <<>> THEN <<>>
    ELSE <<KV(Head(ms).k, IF Head(ms).quoted THEN S(Head(ms).v) ELSE Head(ms).v)>>
             \o RenderMembers(Tail(ms))

\* A described update: id (<<>> for none), the plain members of the message,
\* and the members of "from" and "chat" where the message has them.
Desc(id, plain, hasFrom, from, hasChat, chat) ==
    [id |-> id, plain |-> plain, hasFrom |-> hasFrom, from |-> from,
     hasChat |-> hasChat, chat |-> chat]

\* The text of a described update.
Render(d) ==
    LET members == RenderMembers(d.plain)
                       \o (IF d.hasFrom THEN <<KV(kFrom, Obj(RenderMembers(d.from)))>>
                           ELSE <<>>)
                       \o (IF d.hasChat THEN <<KV(kChat, Obj(RenderMembers(d.chat)))>>
                           ELSE <<>>)
    IN  IF d.id = <<>> THEN Obj(<<Msg(members)>>) ELSE Upd(d.id, members)

\* The value of a key of a described object, <<>> when the key is absent.
ValueOf(ms, key) ==
    LET at == {i \in 1..Len(ms) : ms[i].k = key}
    IN  IF at = {} THEN <<>> ELSE ms[SetMin(at)].v

RECURSIVE NatOf(_)
NatOf(ds) ==
    IF ds = <<>> THEN 0
    ELSE 10 * NatOf(SubSeq(ds, 1, Len(ds) - 1)) + DigitVal(ds[Len(ds)])

\* The record a described update stands for; the sub-objects in `lost` are
\* taken as absent.
Want(d, lost) ==
    LET from == IF "from" \in lost THEN <<>> ELSE d.from
        chat == IF "chat" \in lost THEN <<>> ELSE d.chat
    IN  [message_id |-> U64(NatOf(ValueOf(d.plain, kMessageId))),
         date |-> U64(NatOf(ValueOf(d.plain, kDate))),
         text |-> ValueOf(d.plain, kText),
         from |-> [id |-> ValueOf(from, kId),
                   is_bot |-> ValueOf(from, kIsBot) = TRUE4,
                   first_name |-> ValueOf(from, kFirstName),
                   last_name |-> ValueOf(from, kLastName),
                   username |-> ValueOf(from, kUsername),
                   language_code |-> ValueOf(from, kLanguageCode)],
         chat |-> [id |-> ValueOf(chat, kId),
                   type |-> ValueOf(chat, kType),
                   title |-> ValueOf(chat, kTitle),
                   username |-> ValueOf(chat, kUsername),
                   first_name |-> ValueOf(chat, kFirstName),
                   last_name |-> ValueOf(chat, kLastName),
                   all_members_are_administrators |-> ValueOf(chat, kAllAdmins) = TRUE4]]

\* The string a field holds.
Str(field) == StrOf(Ext(field, <<>>))

\* received_msg as the values its fields hold.
Record(msg) ==
    [message_id |-> msg.message_id,
     date |-> msg.date,
     text |-> Str(msg.text),
     from |-> [id |-> Str(msg.from.id),
               is_bot |-> msg.from.is_bot,
               first_name |-> Str(msg.from.first_name),
               last_name |-> Str(msg.from.last_name),
               username |-> Str(msg.from.username),
               language_code |-> Str(msg.from.language_code)],
     chat |-> [id |-> Str(msg.chat.id),
               type |-> Str(msg.chat.type),
               title |-> Str(msg.chat.title),
               username |-> Str(msg.chat.username),
               first_name |-> Str(msg.chat.first_name),
               last_name |-> Str(msg.chat.last_name),
               all_members_are_administrators |->
                   msg.chat.all_members_are_administrators]]

\* Well-formed updates whose values fit the fields and the scratch buffers.
Fitting ==
    { Desc(<<"5">>, <<Mem(kMessageId, <<"9">>, FALSE), Mem(kText, <<"h", "i">>, TRUE)>>,
           FALSE, <<>>, FALSE, <<>>),
      Desc(<<"6">>, <<>>,
           TRUE, <<Mem(kId, <<"7">>, FALSE), Mem(kIsBot, TRUE4, FALSE)>>, FALSE, <<>>),
      Desc(<<"7">>, <<Mem(kDate, <<"1">>, FALSE)>>, FALSE, <<>>,
           TRUE, <<Mem(kId, <<"7">>, TRUE), Mem(kType, <<"p", "r">>, TRUE)>>),
      Desc(<<"8">>, <<>>, FALSE, <<>>,
           TRUE, <<Mem(kType, <<"i", "d">>, TRUE), Mem(kId, <<"7">>, FALSE)>>) }

\* Updates of which one sub-object is longer than _json_value_str.
Oversized ==
    { Desc(<<>>, <<Mem(kDate, <<"1">>, FALSE)>>,
           TRUE, <<Mem(kId, <<"7">>, FALSE)>>,
           TRUE, <<Mem(kType, <<"p", "r">>, TRUE), Mem(kFirstName, <<"a", "b">>, TRUE)>>),
      Desc(<<>>, <<Mem(kDate, <<"1">>, FALSE)>>,
           TRUE, <<Mem(kId, <<"7">>, FALSE), Mem(kLanguageCode, <<"e", "n">>, TRUE)>>,
           TRUE, <<Mem(kId, <<"7">>, FALSE)>>) }

\* An update of which "from" has more tokens than _json_subelements.
Crowded ==
    { Desc(<<>>, <<Mem(kDate, <<"1">>, FALSE)>>,
           TRUE, <<Mem(<<"a">>, <<"1">>, FALSE), Mem(<<"b">>, <<"1">>, FALSE),
                   Mem(<<"c">>, <<"1">>, FALSE), Mem(kId, <<"7">>, FALSE)>>,
           FALSE, <<>>) }

\* What the transport does in one call of getUpdates: it delivers a
\* described update, or an empty list.
RecIO ==
    {[conn |-> 1, status |-> 0, kind |-> "update", upd |-> Render(d), desc |-> d,
      fits |-> d \in Fitting, resp |-> ListEnvelope(TRUE4, Render(d))] :
        d \in Fitting \cup Oversized \cup Crowded}

CallGetUpdatesRec ==
    /\ call.n < MaxRecCalls
    /\ \E io \in RecIO, junk \in Junk :
          /\ Len(io.resp) < HTTP_MAX_RES_LENGTH
          /\ \E r \in {getUpdates(Bot, long_poll_timeout, dont_keep_connection, io, junk)} :
                 /\ buffer' = r.b.buffer
                 /\ json_value_str' = r.b.jv
                 /\ json_subvalue_str' = r.b.jsv
                 /\ json_elements' = r.b.el
                 /\ json_subelements' = r.b.sub
                 /\ received_msg' = r.b.msg
                 /\ last_received_msg' = r.b.last
                 /\ connected' = r.b.conn
                 /\ call' = [op |-> "getUpdates", n |-> call.n + 1, io |-> io,
                             ret |-> r.ret, path |-> r.path, badsub |-> r.b.badsub,
                             parses |-> r.b.parses, reads |-> r.b.reads]
    /\ UNCHANGED <<unit, long_poll_timeout, dont_keep_connection>>

InitRec == InitUpd
NextRec == CallGetUpdatesRec
SpecRec == InitRec /\ [][NextRec]_vars

RecDone == call.op = "getUpdates" /\ call.ret = 1

\* C11: for a well-formed update whose values fit, after getUpdates returns
\* 1 each field of received_msg holds the value of its key in the update,
\* and each field whose key is absent holds its cleared default.
C11_RecordIsTheUpdate ==
    (RecDone /\ call.io.fits) => Record(received_msg) = Want(call.io.desc, {})

\* C12: when the text of a sub-object fails to tokenize while the update
\* tokenizes, getUpdates returns 1, the fields of that sub-object hold their
\* defaults and the other fields hold their parsed values.
C12_SubObjectFailureIsLocal ==
    (call.op = "getUpdates" /\ call.badsub # {}) =>
        /\ call.ret = 1
        /\ Record(received_msg) = Want(call.io.desc, call.badsub)

\* "chat" fails to tokenize, the date and "from" are parsed.
C12_Witness ==
    /\ RecDone /\ call.badsub = {"chat"}
    /\ call.io.desc.chat # <<>>
    /\ Record(received_msg).from.id = <<"7">>
    /\ received_msg.date = U64(1)
    /\ Record(received_msg).chat.type = <<>>

\* C16: in every tokenizer call made by getUpdates the capacity passed is no
\* larger than the number of entries of the token array passed: the update
\* is tokenized into the primary array with its size, "from" and "chat" into
\* the secondary array with the secondary array's size.
C16_CapacityIsArraySize ==
    call.op = "getUpdates" =>
        \A p \in call.parses :
            /\ p.cap <= p.size
            /\ p.of = "update" => (p.arr = "el" /\ p.cap = MAX_JSON_ELEMENTS)
            /\ p.of \in {"from", "chat"} =>
                   (p.arr = "sub" /\ p.cap = MAX_JSON_SUBELEMENTS)

(***************************************************************************)
(* The calls of getMe, sendMessage and getUpdates on a constructed bot.    *)
(***************************************************************************)

MaxBotCalls == 2
LongTextLen == 70

\* header, separator, {"ok":<ok>,"result":<payload>}
ObjEnvelope(ok, payload) ==
    <<"H">> \o SEP \o <<"{">> \o OKM \o ok \o <<",">> \o RESM \o payload \o <<"}">>

FALSE5 == <<"f", "a", "l", "s", "e">>

\* What the transport may do in a call of getMe or sendMessage.
BotIO ==
    {[conn |-> -1, status |-> 1, kind |-> "failed", resp |-> <<>>],
     [conn |-> 1, status |-> 1, kind |-> "failed", resp |-> <<>>],
     [conn |-> 1, status |-> 0, kind |-> "rejected",
      resp |-> ObjEnvelope(FALSE5, <<>>)],
     [conn |-> 1, status |-> 0, kind |-> "ok",
      resp |-> ObjEnvelope(TRUE4, Obj(<<KV(kId, <<"7">>)>>))]}

\* What the transport may do in a call of getUpdates.
BotUpdIO ==
    {[conn |-> 1, status |-> 1, kind |-> "failed", upd |-> NoUpdate, resp |-> <<>>],
     [conn |-> 0, status |-> 1, kind |-> "failed", upd |-> NoUpdate, resp |-> <<>>],
     [conn |-> 1, status |-> 0, kind |-> "rejected", upd |-> NoUpdate,
      resp |-> ListEnvelope(FALSE5, <<>>)],
     [conn |-> 1, status |-> 0, kind |-> "update", upd |-> <<>>,
      resp |-> ListEnvelope(TRUE4, <<>>)]}
    \cup {[conn |-> 1, status |-> 0, kind |-> "update", upd |-> u,
           resp |-> ListEnvelope(TRUE4, u)] :
             u \in {Upd(<<"5">>, <<KV(kMessageId, <<"9">>), KV(kText, S(<<"h", "i">>))>>),
                    Cut(Upd(<<"5">>, <<KV(kText, S(<<"h", "i">>))>>))}}

\* The arguments of sendMessage.
SendArgs(chat_id, text, parse_mode, preview, notification, reply_to, markup) ==
    [chat_id |-> chat_id, text |-> text, parse_mode |-> parse_mode,
     disable_web_page_preview |-> preview, disable_notification |-> notification,
     reply_to_message_id |-> reply_to, reply_markup |-> markup]

LongText == [i \in 1..LongTextLen |-> "a"]

\* A message that fits, and one whose last field does not.
BotArgs ==
    {SendArgs(<<"7">>, <<"h", "i">>, <<>>, FALSE, FALSE, U64Zero, <<>>),
     SendArgs(<<"7">>, LongText, <<>>, FALSE, TRUE, U64Zero, <<>>)}

\* The state of the bot after a call, and the record of the call.
BotReturns(op, io, b, ret, path, posted) ==
    /\ buffer' = b.buffer
    /\ json_value_str' = b.jv
    /\ json_subvalue_str' = b.jsv
    /\ json_elements' = b.el
    /\ json_subelements' = b.sub
    /\ received_msg' = b.msg
    /\ last_received_msg' = b.last
    /\ connected' = b.conn
    /\ call' = [op |-> op, n |-> call.n + 1, io |-> io, ret |-> ret, path |-> path,
                posted |-> posted, connects |-> connects(Bot), conn0 |-> connected,
                msg0 |-> received_msg, last0 |-> last_received_msg]
    /\ UNCHANGED <<unit, long_poll_timeout, dont_keep_connection>>

CallGetMeBot ==
    /\ call.n < MaxBotCalls
    /\ \E io \in BotIO :
          /\ Len(io.resp) < HTTP_MAX_RES_LENGTH
          /\ \E r \in {getMe(Bot, dont_keep_connection, io)} :
                 BotReturns("getMe", io, r.b, IF r.ret THEN 1 ELSE 0, r.path, r.posted)

CallSendMessageBot ==
    /\ call.n < MaxBotCalls
    /\ \E io \in BotIO, a \in BotArgs :
          /\ Len(io.resp) < HTTP_MAX_RES_LENGTH
          /\ \E r \in {sendMessage(Bot, dont_keep_connection, a, io)} :
                 BotReturns("sendMessage", io, r.b, IF r.ret THEN 1 ELSE 0, r.path,
                            r.posted)

CallGetUpdatesBot ==
    /\ call.n < MaxBotCalls
    /\ \E io \in BotUpdIO, junk \in Junk :
          /\ Len(io.resp) < HTTP_MAX_RES_LENGTH
          /\ \E r \in {getUpdates(Bot, long_poll_timeout, dont_keep_connection, io, junk)} :
                 BotReturns("getUpdates", io, r.b, r.ret, r.path, r.path # "connect")

InitBot == InitUpd
NextBot == CallGetMeBot \/ CallSendMessageBot \/ CallGetUpdatesBot
SpecBot == InitBot /\ [][NextBot]_vars

\* The call ended because the request failed or the list was empty.
NothingNew == call.op = "getUpdates" /\ call.path \in {"request", "empty"}

\* C13: a getUpdates call that ends because the request failed or timed out,
\* or because the list of updates is empty, returns 0 and leaves received_msg
\* and the poll offset as they were before the call.
C13_NothingNewKeepsRecord ==
    NothingNew =>
        /\ call.ret = 0
        /\ received_msg = call.msg0
        /\ last_received_msg = call.last0

\* The record of an earlier update is still there after such a call.
C13_Witness ==
    /\ NothingNew /\ call.n = 2
    /\ Str(received_msg.text) = <<"h", "i">>
    /\ received_msg.message_id = U64(9)
    /\ last_received_msg = U64(6)

BotOps == {"getMe", "sendMessage", "getUpdates"}

\* The request of the call failed, or its response was rejected.
RequestFailed == call.op \in BotOps /\ call.path = "request"

\* C14: when the request fails or the response is rejected inside getMe,
\* sendMessage or getUpdates, the call returns failure and the bot is
\* disconnected when it returns; the call after it connects before it sends.
C14_FailureDisconnects ==
    /\ [](RequestFailed => (call.ret = 0 /\ ~connected))
    /\ [][RequestFailed =>
             (call'.connects /\ (call'.posted => call'.io.conn = 1))]_vars

\* A connection kept by the call before is dropped by a failing call.
C14_Witness ==
    /\ RequestFailed /\ call.n = 2
    /\ call.conn0 /\ ~connected
    /\ call.ret = 0

\* C20: a bot constructed with dont_keep_connection is disconnected at the
\* return of every getMe, sendMessage and getUpdates call, on every return
\* path, in any sequence of calls.
C20_NeverKeepsConnection ==
    (dont_keep_connection /\ call.op \in BotOps) => ~connected

\* A call that succeeded after it connected.
C20_Witness ==
    /\ dont_keep_connection /\ call.op \in BotOps /\ call.n = 2
    /\ call.connects /\ call.posted /\ call.ret = 1
    /\ call.path \in {"done", "record"}
    /\ ~connected

(***************************************************************************)
(* The calls of sendMessage: the body it builds and posts.                 *)
(***************************************************************************)

MaxSendCalls == 1
MarkupLen == 30

Hi == <<"h", "i">>
Seven == <<"7">>

\* A text of n bytes.
TextOf(n) == [i \in 1..n |-> "a"]

\* The fixed bytes of the body without optional fields.
PlainLen == Len(MsgChatId) + Len(Seven) + Len(MsgText) + Len(MsgEnd)

\* The messages sent: with each optional field, with a parse mode the code
\* passes over, with a text that makes the last field end one byte past the
\* capacity, with a text that by itself does not fit, and with a
\* reply_markup longer than the temporary buffer.
SendMessages ==
    {SendArgs(Seven, Hi, <<>>, FALSE, FALSE, U64Zero, <<>>),
     SendArgs(Seven, Hi, HTML, FALSE, FALSE, U64Zero, <<>>),
     SendArgs(Seven, Hi, Markdown, FALSE, FALSE, U64Zero, <<>>),
     SendArgs(Seven, Hi, <<"X", "M", "L">>, FALSE, FALSE, U64Zero, <<>>),
     SendArgs(Seven, Hi, <<>>, TRUE, FALSE, U64Zero, <<>>),
     SendArgs(Seven, Hi, <<>>, FALSE, TRUE, U64Zero, <<>>),
     SendArgs(Seven, Hi, <<>>, FALSE, FALSE, U64(5), <<"{", "}">>),
     SendArgs(Seven, Hi, <<>>, TRUE, TRUE, U64(5), <<"{", "}">>),
     SendArgs(Seven, Hi, <<>>, FALSE, FALSE, U64Zero, TextOf(MarkupLen)),
     SendArgs(Seven, LongText, <<>>, FALSE, TRUE, U64Zero, <<>>),
     SendArgs(Seven, TextOf(HTTP_MAX_RES_LENGTH - PlainLen - Len(FieldNotification) + 1),
              <<>>, FALSE, TRUE, U64Zero, <<>>),
     SendArgs(Seven, TextOf(HTTP_MAX_RES_LENGTH - PlainLen - Len(FieldNotification)),
              <<>>, FALSE, TRUE, U64Zero, <<>>),
     SendArgs(Seven, TextOf(HTTP_MAX_RES_LENGTH - PlainLen + 2), <<>>, FALSE, FALSE,
              U64Zero, <<>>)}

SendIO == {io \in BotIO : io.conn = 1}

CallSendMessage ==
    /\ call.n < MaxSendCalls
    /\ \E io \in SendIO, a \in SendMessages :
          /\ Len(io.resp) < HTTP_MAX_RES_LENGTH
          /\ \E r \in {sendMessage(Bot, dont_keep_connection, a, io)} :
                 /\ buffer' = r.b.buffer
                 /\ connected' = r.b.conn
                 /\ call' = [op |-> "sendMessage", n |-> call.n + 1, io |-> io,
                             a |-> a, ret |-> r.ret, path |-> r.path,
                             posted |-> r.posted, body |-> r.body]
    /\ UNCHANGED <<unit, json_value_str, json_subvalue_str, json_elements,
                   json_subelements, received_msg, last_received_msg,
                   long_poll_timeout, dont_keep_connection>>

InitSend == InitUpd
NextSend == CallSendMessage
SpecSend == InitSend /\ [][NextSend]_vars

\* The bytes of an optional field before its closing brace, when the field
\* is asked for.
Asked(wanted, field) == IF wanted THEN field ELSE <<>>

\* The body of the message with every field asked for, as the formats of
\* sendMessage write it.
CompleteBody(a) ==
    Cut(MsgChatId \o a.chat_id \o MsgText \o a.text \o MsgEnd)
        \o Asked(a.parse_mode \in {Markdown, HTML},
                 FieldParseMode \o a.parse_mode \o <<Q>>)
        \o Asked(a.disable_web_page_preview, Cut(FieldPreview))
        \o Asked(a.disable_notification, Cut(FieldNotification))
        \o Asked(a.reply_to_message_id # U64Zero,
                 FieldReplyTo \o FormatU64(a.reply_to_message_id))
        \o Asked(a.reply_markup # <<>>, FieldReplyMarkup \o a.reply_markup)
        \o <<"}">>

SendDone == call.op = "sendMessage" /\ call.path # "connect"

\* C19: sendMessage posts only when the buffer holds the complete body; when
\* the body does not fit the capacity of the buffer nothing is posted,
\* sendMessage returns false and the bot is disconnected.
C19_PostsOnlyCompleteBody ==
    SendDone =>
        /\ call.posted => call.body = CompleteBody(call.a)
        /\ Len(CompleteBody(call.a)) > HTTP_MAX_RES_LENGTH - 1 =>
               (~call.posted /\ ~call.ret /\ ~connected)

====
